---- MODULE Spec2Model ----
(***************************************************************************)
(* A model of FetcherService (src/src/services/FetcherService.ts): the     *)
(* base service that builds a request, sends it with axios, runs the HTTP  *)
(* and API error middlewares on the response and extracts a cursored list  *)
(* of raw entities from the JSON body.                                     *)
(*                                                                         *)
(* JSON values are records tagged by "kind":                               *)
(*   [kind |-> "str", s |-> ...]      a string                             *)
(*   [kind |-> "num", n |-> ...]      a number                             *)
(*   [kind |-> "bool", b |-> ...]     true or false                        *)
(*   [kind |-> "null"]                null                                 *)
(*   [kind |-> "undefined"]           the value of an absent property      *)
(*   [kind |-> "arr", items |-> <<...>>]                                   *)
(*   [kind |-> "obj", fields |-> <<[k |-> key, v |-> value], ...>>]        *)
(* An object keeps its entries in insertion order, as Object.entries does. *)
(***************************************************************************)
EXTENDS Naturals, Sequences, FiniteSets, TLC

VARIABLES
    proxyUrl,     \* constructor argument: "given" or "absent"
    httpsAgent,   \* this.httpsAgent, chosen at construction
    op,           \* the method being executed, "none" when idle
    rtype,        \* the resourceType argument of fetch / post
    pc,           \* position inside the running method
    req,          \* the AxiosRequestConfig handed to axios
    res,          \* the AxiosResponse axios resolved with
    chain,        \* the value travelling down the promise chain
    result,       \* how the method's promise settled
    trace         \* the steps executed so far, in order

vars == <<proxyUrl, httpsAgent, op, rtype, pc, req, res, chain, result, trace>>

(***************************************************************************)
(* Bounds                                                                  *)
(***************************************************************************)
\* the largest number of entries of a generated JSON tree
MaxItems == 2

(***************************************************************************)
(* JSON values                                                             *)
(***************************************************************************)
Str(s) == [kind |-> "str", s |-> s]
Num(n) == [kind |-> "num", n |-> n]
Bool(b) == [kind |-> "bool", b |-> b]
Null == [kind |-> "null"]
Undefined == [kind |-> "undefined"]
Arr(items) == [kind |-> "arr", items |-> items]
Obj(fields) == [kind |-> "obj", fields |-> fields]
F(k, v) == [k |-> k, v |-> v]

\* Object.keys(data).includes(key)
HasKey(o, key) == \E i \in 1..Len(o.fields) : o.fields[i].k = key

\* data[key] of an object: the value of the entry, undefined when absent
Get(o, key) ==
    IF HasKey(o, key)
    THEN o.fields[CHOOSE i \in 1..Len(o.fields) : o.fields[i].k = key].v
    ELSE Undefined

\* v.key for any JSON value v that is neither null nor undefined:
\* strings, numbers and arrays have no such own property
Prop(v, key) == IF v.kind = "obj" THEN Get(v, key) ELSE Undefined

\* the values a walk descends into: array items, object entry values
Kids(d) ==
    IF d.kind = "arr" THEN d.items
    ELSE IF d.kind = "obj" THEN [i \in 1..Len(d.fields) |-> d.fields[i].v]
    ELSE <<>>

\* an object that has `key` with the string `value`
Matches(d, key, value) ==
    d.kind = "obj" /\ HasKey(d, key) /\ Get(d, key) = Str(value)

\* findByFilter(data, key, value): every object of the tree that has the
\* key with the value, in pre-order (a node before the nodes inside it,
\* siblings in entry order)
RECURSIVE findByFilter(_, _, _)
RECURSIVE findInAll(_, _, _, _)
findInAll(kids, i, key, value) ==
    IF i > Len(kids) THEN <<>>
    ELSE findByFilter(kids[i], key, value) \o findInAll(kids, i + 1, key, value)

findByFilter(data, key, value) ==
    IF data.kind = "arr" THEN findInAll(data.items, 1, key, value)
    ELSE IF data.kind = "obj"
    THEN (IF Matches(data, key, value) THEN <<data>> ELSE <<>>)
         \o findInAll(Kids(data), 1, key, value)
    ELSE <<>>

(***************************************************************************)
(* Resource types                                                          *)
(***************************************************************************)
TweetDetailTypes == {"TWEET_DETAILS"}
UserDetailTypes == {"USER_DETAILS", "USER_DETAILS_BY_ID"}
TimelineTweetTypes == {"TWEET_SEARCH", "USER_LIKES", "LIST_TWEETS", "USER_TWEETS"}
TimelineUserTypes ==
    {"TWEET_FAVORITERS", "TWEET_RETWEETERS", "USER_FOLLOWERS", "USER_FOLLOWING"}
OtherTypes == {"CREATE_TWEET", "FAVORITE_TWEET"}

EResourceType ==
    TweetDetailTypes \cup UserDetailTypes \cup TimelineTweetTypes
        \cup TimelineUserTypes \cup OtherTypes

(***************************************************************************)
(* extractData                                                             *)
(***************************************************************************)
\* new CursoredData(list, next)
CursoredData(list, next) == [kind |-> "ok", list |-> list, next |-> next]

\* a TypeError thrown by reading a property of undefined or null
TypeError == [kind |-> "throw", error |-> "TypeError"]

\* whether reading item[outer][inner] throws: item[outer] is undefined or null
ReadThrows(item, outer) == Get(item, outer).kind \in {"undefined", "null"}

\* items.map((item) => item[outer].result), for items none of which throws
MapResult(items, outer) ==
    [i \in 1..Len(items) |-> Prop(Get(items[i], outer), "result")]

\* BottomCursor taking the last match instead of the first
BottomCursorLast(data) ==
    LET found == findByFilter(data, "cursorType", "Bottom")
    IN  IF Len(found) = 0 THEN Undefined ELSE Get(found[Len(found)], "value")

\* findByFilter(data, 'cursorType', 'Bottom')[0]?.value
BottomCursor(data) ==
    LET found == findByFilter(data, "cursorType", "Bottom")
    IN  IF Len(found) = 0 THEN Undefined ELSE Get(found[1], "value")

\* ExtractRule with LIST_TWEETS left out of the tweet timelines
ExtractRuleNoList(type) ==
    IF type = "TWEET_DETAILS" THEN [typename |-> "Tweet", via |-> ""]
    ELSE IF type = "USER_DETAILS" \/ type = "USER_DETAILS_BY_ID"
    THEN [typename |-> "User", via |-> ""]
    ELSE IF type = "TWEET_SEARCH" \/ type = "USER_LIKES" \/ type = "USER_TWEETS"
    THEN [typename |-> "TimelineTweet", via |-> "tweet_results"]
    ELSE IF type = "TWEET_FAVORITERS" \/ type = "TWEET_RETWEETERS"
            \/ type = "USER_FOLLOWERS" \/ type = "USER_FOLLOWING"
    THEN [typename |-> "TimelineUser", via |-> "user_results"]
    ELSE [typename |-> "", via |-> ""]

\* the branch of extractData taken for `type`: the discriminator searched
\* for and the property mapped over ("" when the nodes themselves are kept)
ExtractRule(type) ==
    IF type = "TWEET_DETAILS" THEN [typename |-> "Tweet", via |-> ""]
    ELSE IF type = "USER_DETAILS" \/ type = "USER_DETAILS_BY_ID"
    THEN [typename |-> "User", via |-> ""]
    ELSE IF type = "TWEET_SEARCH" \/ type = "USER_LIKES"
            \/ type = "LIST_TWEETS" \/ type = "USER_TWEETS"
    THEN [typename |-> "TimelineTweet", via |-> "tweet_results"]
    ELSE IF type = "TWEET_FAVORITERS" \/ type = "TWEET_RETWEETERS"
            \/ type = "USER_FOLLOWERS" \/ type = "USER_FOLLOWING"
    THEN [typename |-> "TimelineUser", via |-> "user_results"]
    ELSE [typename |-> "", via |-> ""]

\* extractData(data, type): the CursoredData returned, or the TypeError thrown
\* while mapping the matched timeline nodes
extractData(data, type) ==
    LET rule == ExtractRule(type)
        found == IF rule.typename = "" THEN <<>>
                 ELSE findByFilter(data, "__typename", rule.typename)
    IN  IF rule.via = ""
        THEN CursoredData(found, BottomCursor(data))
        ELSE IF \E i \in 1..Len(found) : ReadThrows(found[i], rule.via)
        THEN TypeError
        ELSE CursoredData(MapResult(found, rule.via), BottomCursor(data))

(***************************************************************************)
(* Inputs: the JSON trees a timeline endpoint may answer with              *)
(***************************************************************************)
TweetNode(id) == Obj(<<F("__typename", Str("Tweet")), F("rest_id", Str(id))>>)
UserNode(id) == Obj(<<F("__typename", Str("User")), F("rest_id", Str(id))>>)
CursorNode(type, value) == Obj(<<F("cursorType", Str(type)), F("value", Str(value))>>)

\* the entries a tree is assembled from
Templates ==
    { TweetNode("t1"),
      \* a tweet quoting another tweet
      Obj(<<F("__typename", Str("Tweet")), F("rest_id", Str("t2")),
            F("quoted_status_result", Obj(<<F("result", TweetNode("t3"))>>))>>),
      UserNode("u1"),
      Obj(<<F("__typename", Str("TimelineTweet")),
            F("tweet_results", Obj(<<F("result", TweetNode("t4"))>>))>>),
      \* a timeline tweet without tweet_results
      Obj(<<F("__typename", Str("TimelineTweet"))>>),
      \* a timeline tweet whose tweet_results holds no result
      Obj(<<F("__typename", Str("TimelineTweet")), F("tweet_results", Obj(<<>>))>>),
      Obj(<<F("__typename", Str("TimelineTweet")), F("tweet_results", Null)>>),
      Obj(<<F("__typename", Str("TimelineUser")),
            F("user_results", Obj(<<F("result", UserNode("u2"))>>))>>),
      \* a timeline user without user_results
      Obj(<<F("__typename", Str("TimelineUser"))>>),
      CursorNode("Bottom", "c1"),
      CursorNode("Bottom", "c2"),
      CursorNode("Top", "c3"),
      \* a bottom cursor without a value
      Obj(<<F("cursorType", Str("Bottom"))>>) }

EntryKeys == <<"e1", "e2", "e3", "e4", "e5">>

\* the entries as an array, or as the values of an object
TreeOf(shape, items) ==
    IF shape = "array"
    THEN Obj(<<F("data", Obj(<<F("entries", Arr(items))>>))>>)
    ELSE Obj(<<F("data", Obj([i \in 1..Len(items) |-> F(EntryKeys[i], items[i])]))>>)

ItemSeqs == UNION {[1..n -> Templates] : n \in 0..MaxItems}

Trees == {TreeOf(shape, items) : shape \in {"array", "object"}, items \in ItemSeqs}

(***************************************************************************)
(* Construction                                                            *)
(***************************************************************************)
\* getHttpsAgent(proxyUrl)
getHttpsAgent(url) == IF url = "given" THEN "HttpsProxyAgent" ELSE "https.Agent"

(***************************************************************************)
(* Error middlewares                                                       *)
(***************************************************************************)
\* enum EHttpStatus: status code -> name (the numeric enum's reverse mapping)
EHttpStatus ==
    (400 :> "BAD_REQUEST") @@ (401 :> "UNAUTHORIZED") @@ (403 :> "FORBIDDEN")
    @@ (404 :> "NOT_FOUND") @@ (405 :> "METHOD_NOT_ALLOWED")
    @@ (408 :> "REQUEST_TIMEOUT") @@ (429 :> "TOO_MANY_REQUESTS")
    @@ (500 :> "INTERNAL_SERVER_ERROR") @@ (502 :> "BAD_GATEWAY")
    @@ (503 :> "SERVICE_UNAVAILABLE")

\* enum EErrorCodes: name -> API error code
EErrorCodes ==
    [COULD_NOT_AUTHENTICATE |-> 32, RATE_LIMIT_EXCEEDED |-> 88]

\* enum EApiErrors: name -> message
EApiErrors ==
    [COULD_NOT_AUTHENTICATE |-> "Failed to authenticate",
     RATE_LIMIT_EXCEEDED |-> "Too many requests"]

Digits == <<"0", "1", "2", "3", "4", "5", "6", "7", "8", "9">>

\* String(n) of a natural number: its decimal digits
RECURSIVE Decimal(_)
Decimal(n) ==
    IF n < 10 THEN Digits[n + 1]
    ELSE Decimal(n \div 10) \o Digits[(n % 10) + 1]

\* a conversion to a string that succeeded
Text(s) == [kind |-> "text", s |-> s]

\* `${v}`: the string a template literal makes of a value, or the TypeError
\* it throws. An object is converted by its toString: Object.prototype's
\* gives "[object Object]", but an own "toString" member of a JSON object is
\* no function, nor is its valueOf of any use, so the conversion throws.
\* An array is converted by join(','), which converts each item but null
\* and undefined.
RECURSIVE TemplateString(_)
RECURSIVE JoinFrom(_, _)
TemplateString(v) ==
    IF v.kind = "str" THEN Text(v.s)
    ELSE IF v.kind = "num" THEN Text(Decimal(v.n))
    ELSE IF v.kind = "bool" THEN Text(IF v.b THEN "true" ELSE "false")
    ELSE IF v.kind = "undefined" THEN Text("undefined")
    ELSE IF v.kind = "null" THEN Text("null")
    ELSE IF v.kind = "arr" THEN JoinFrom(v.items, 1)
    ELSE IF HasKey(v, "toString") THEN TypeError
    ELSE Text("[object Object]")

\* Array.prototype.join(','), from the i-th item on
JoinFrom(items, i) ==
    IF i > Len(items) THEN Text("")
    ELSE LET head == IF items[i].kind \in {"null", "undefined"} THEN Text("")
                     ELSE TemplateString(items[i])
             rest == JoinFrom(items, i + 1)
         IN  IF head.kind = "throw" THEN head
             ELSE IF rest.kind = "throw" THEN rest
             ELSE Text(head.s \o (IF i < Len(items) THEN "," ELSE "") \o rest.s)

(***************************************************************************)
(* The number a string converts to when == compares it with a number.      *)
(* Only natural numbers matter here, since the enum's values are natural:  *)
(* Natural(n) is the natural number n, where a number too large to be an   *)
(* error code is kept as the largest number told apart; NotNatural is NaN  *)
(* or any other number. A decimal numeral converts to the double nearest   *)
(* to it, a tie going to the double with the even significand, so it       *)
(* converts to the natural number n >= 1 when it lies no further from n    *)
(* than half the distance to the next double on that side. A numeral too   *)
(* small to be told from 0 as a double is not taken for 0 here: no value   *)
(* of the enum is 0.                                                       *)
(***************************************************************************)
Natural(n) == [ok |-> TRUE, n |-> n]
NotNatural == [ok |-> FALSE, n |-> 0]

\* numbers from here on are not told apart
Saturate(n) == IF n > 1000000 THEN 1000000 ELSE n

Ch(s, i) == SubSeq(s, i, i)
From(s, i) == SubSeq(s, i, Len(s))

\* the characters a conversion to a number trims: space, tab, line feed,
\* carriage return, form feed, then line tabulation (U+000B), no-break
\* space (U+00A0), zero width no-break space (U+FEFF) and ogham space mark
\* (U+1680). The other space separators (U+2000 to U+200A, U+202F, U+205F,
\* U+3000) and the line and paragraph separators (U+2028, U+2029) are
\* trimmed too, but cannot be written in a string here, so that no string
\* of the model holds them.
WhiteSpace ==
    {" ", "\t", "\n", "\r", "\f", "", " ", "﻿", " "}

RECURSIVE Trim(_)
Trim(s) ==
    IF s # "" /\ Ch(s, 1) \in WhiteSpace THEN Trim(From(s, 2))
    ELSE IF s # "" /\ Ch(s, Len(s)) \in WhiteSpace THEN Trim(SubSeq(s, 1, Len(s) - 1))
    ELSE s

LowerDigits == Digits \o <<"a", "b", "c", "d", "e", "f">>
UpperDigits == Digits \o <<"A", "B", "C", "D", "E", "F">>

\* the value of a digit, Len(LowerDigits) for any other character
DigitValue(c) ==
    IF \E i \in 1..Len(LowerDigits) : LowerDigits[i] = c \/ UpperDigits[i] = c
    THEN (CHOOSE i \in 1..Len(LowerDigits) : LowerDigits[i] = c \/ UpperDigits[i] = c) - 1
    ELSE Len(LowerDigits)

\* one digit of the base or more, and nothing else
IsDigits(s, base) ==
    s # "" /\ \A i \in 1..Len(s) : DigitValue(Ch(s, i)) < base

AllZero(s) == \A i \in 1..Len(s) : Ch(s, i) = "0"

\* the first position of s holding a character of the set, 0 when none does
IndexOf(s, set) ==
    IF \E i \in 1..Len(s) : Ch(s, i) \in set
    THEN CHOOSE i \in 1..Len(s) :
            Ch(s, i) \in set /\ \A j \in 1..(i - 1) : Ch(s, j) \notin set
    ELSE 0

\* the value of a string of digits of the base, 0 for the empty string;
\* more than 20 digits after the leading zeros are a number not told apart
RECURSIVE RadixOf(_, _)
RadixOf(s, base) ==
    IF s = "" THEN 0
    ELSE Saturate(RadixOf(SubSeq(s, 1, Len(s) - 1), base) * base
                  + DigitValue(Ch(s, Len(s))))

Radix(s, base) ==
    LET start == IndexOf(s, {Ch(s, i) : i \in 1..Len(s)} \ {"0"})
    IN  IF start = 0 THEN 0
        ELSE IF Len(s) - start >= 20 THEN Saturate(1000001)
        ELSE RadixOf(From(s, start), base)

\* n * 10^k
RECURSIVE Shift(_, _)
Shift(n, k) ==
    IF n = 0 \/ k = 0 THEN n
    ELSE IF k > 7 THEN Saturate(1000001)
    ELSE Shift(Saturate(n * 10), k - 1)

\* the exponent of the largest power of 2 that is at most n, for n >= 1
RECURSIVE Log2(_)
Log2(n) == IF n < 2 THEN 0 ELSE 1 + Log2(n \div 2)

\* whether n >= 1 is a power of 2
RECURSIVE IsPowerOf2(_)
IsPowerOf2(n) == n = 1 \/ (n % 2 = 0 /\ IsPowerOf2(n \div 2))

\* the digits of a string of decimal digits, as numbers
DigitsOf(s) == [i \in 1..Len(s) |-> DigitValue(Ch(s, i))]

\* the i-th digit after the point of a fraction given by its digits
DigitAt(f, i) == IF i \in 1..Len(f) THEN f[i] ELSE 0

\* the digits after the point of half the fraction f, one more than f has:
\* each digit halved, and 5 more after an odd digit
Halve(f) ==
    SubSeq([i \in 1..(Len(f) + 1) |->
               (DigitAt(f, i) \div 2) + (IF DigitAt(f, i - 1) % 2 = 1 THEN 5 ELSE 0)],
           1, Len(f) + 1)

\* the fraction f halved k times
RECURSIVE HalveTimes(_, _)
HalveTimes(f, k) ==
    LET half == Halve(f)
    IN  IF k = 0 \/ Len(half) = 0 THEN f ELSE HalveTimes(half, k - 1)

\* the digits of 2^(-k) after the point, for k >= 1
PowHalf(k) == HalveTimes(<<5>>, k - 1)

\* a double has 53 significant bits: half the distance from the natural
\* number n >= 1 to the next double above it, as digits after the point
HalfUlpAbove(n) == PowHalf(53 - Log2(n))

\* half the distance from n >= 1 to the next double below it, which is
\* nearer by half when n is a power of 2
HalfUlpBelow(n) ==
    PowHalf((IF IsPowerOf2(n) THEN 54 ELSE 53) - Log2(n))

\* the digits of 1 - f after the point, for f ending in a digit other than 0
OneMinus(f) ==
    [i \in 1..Len(f) |-> (IF i < Len(f) THEN 9 ELSE 10) - f[i]]

\* the fraction a against the fraction b: "lt", "eq" or "gt"
FracCompare(a, b) ==
    LET last == IF Len(a) > Len(b) THEN Len(a) ELSE Len(b)
        differ == {i \in 1..last : DigitAt(a, i) # DigitAt(b, i)}
        first == CHOOSE i \in differ : \A j \in differ : i <= j
    IN  IF differ = {} THEN "eq"
        ELSE IF DigitAt(a, first) < DigitAt(b, first) THEN "lt"
        ELSE "gt"

\* the natural number that whole + 0.frac converts to: whole itself when
\* the fraction is within half the distance to the double above, whole + 1
\* when it is within half the distance from the double below that
Rounded(whole, frac) ==
    IF AllZero(frac) \/ whole >= Saturate(whole + 1) THEN Natural(whole)
    ELSE IF whole >= 1 /\ FracCompare(DigitsOf(frac), HalfUlpAbove(whole)) # "gt"
    THEN Natural(whole)
    ELSE IF FracCompare(DigitsOf(frac), OneMinus(HalfUlpBelow(whole + 1))) # "lt"
    THEN Natural(whole + 1)
    ELSE NotNatural

\* an unsigned decimal numeral: digits, an optional point, an optional exponent
UnsignedDecimal(body) ==
    LET e == IndexOf(body, {"e", "E"})
        mant == IF e = 0 THEN body ELSE SubSeq(body, 1, e - 1)
        expo == IF e = 0 THEN "" ELSE From(body, e + 1)
        signedExp == expo # "" /\ Ch(expo, 1) \in {"+", "-"}
        negExp == expo # "" /\ Ch(expo, 1) = "-"
        expDigits == IF signedExp THEN From(expo, 2) ELSE expo
        dot == IndexOf(mant, {"."})
        ip == IF dot = 0 THEN mant ELSE SubSeq(mant, 1, dot - 1)
        fp == IF dot = 0 THEN "" ELSE From(mant, dot + 1)
        wellFormed ==
            /\ e = 0 \/ IsDigits(expDigits, 10)
            /\ ip = "" \/ IsDigits(ip, 10)
            /\ fp = "" \/ IsDigits(fp, 10)
            /\ ip \o fp # ""
        digits == ip \o fp
        exp == Radix(expDigits, 10)
        \* the point moved left past the first digit: zeros follow it, of
        \* which one is kept, enough to tell the fraction from one near 1
        past == negExp /\ exp > Len(ip)
        \* the number of digits left of the point once the exponent is applied
        point == IF negExp THEN (IF past THEN 0 ELSE Len(ip) - exp)
                 ELSE Len(ip) + exp
        cut == IF point < Len(digits) THEN point ELSE Len(digits)
        whole == Shift(Radix(SubSeq(digits, 1, cut), 10), point - cut)
        frac == (IF past THEN "0" ELSE "") \o From(digits, cut + 1)
    IN  IF ~wellFormed THEN NotNatural ELSE Rounded(whole, frac)

\* a numeral with a base prefix: 0x, 0o, 0b
Prefixed(t, base) ==
    IF IsDigits(From(t, 3), base) THEN Natural(Radix(From(t, 3), base))
    ELSE NotNatural

\* Number(s): white space trimmed, "" is 0, then a prefixed numeral or an
\* optionally signed decimal one
StringToNumber(s) ==
    LET t == Trim(s)
        prefix == IF Len(t) >= 2 THEN SubSeq(t, 1, 2) ELSE ""
        signed == t # "" /\ Ch(t, 1) \in {"+", "-"}
        unsigned == UnsignedDecimal(IF signed THEN From(t, 2) ELSE t)
    IN  IF t = "" THEN Natural(0)
        ELSE IF prefix \in {"0x", "0X"} THEN Prefixed(t, 16)
        ELSE IF prefix \in {"0o", "0O"} THEN Prefixed(t, 8)
        ELSE IF prefix \in {"0b", "0B"} THEN Prefixed(t, 2)
        ELSE IF Ch(t, 1) = "-" /\ unsigned.n # 0 THEN NotNatural
        ELSE unsigned

\* findKeyByValue(EErrorCodes, value): the key whose value == the string,
\* "undefined" when there is none
findKeyByValue(enum, value) ==
    LET number == StringToNumber(value)
    IN  IF number.ok /\ \E k \in DOMAIN enum : enum[k] = number.n
        THEN CHOOSE k \in DOMAIN enum : enum[k] = number.n
        ELSE "undefined"

Return(r) == [kind |-> "value", res |-> r]
Throw(message) == [kind |-> "throw", error |-> message]

\* handleHttpError(res)
handleHttpError(r) ==
    IF r.status # 200 /\ r.status \in DOMAIN EHttpStatus
    THEN Throw(EHttpStatus[r.status])
    ELSE Return(r)

\* whether a value counts as true in a condition
Truthy(v) ==
    IF v.kind \in {"undefined", "null"} THEN FALSE
    ELSE IF v.kind = "str" THEN v.s # ""
    ELSE IF v.kind = "num" THEN v.n # 0
    ELSE IF v.kind = "bool" THEN v.b
    ELSE TRUE

\* v.length of a value that is neither null nor undefined
Length(v) ==
    IF v.kind = "arr" THEN Num(Len(v.items))
    ELSE IF v.kind = "str" THEN Num(Len(v.s))
    ELSE Prop(v, "length")

\* v[i] of a value that is neither null nor undefined, i counted from 0
Index(v, i) ==
    IF v.kind = "arr"
    THEN (IF i < Len(v.items) THEN v.items[i + 1] ELSE Undefined)
    ELSE IF v.kind = "str"
    THEN (IF i < Len(v.s) THEN Str(SubSeq(v.s, i + 1, i + 1)) ELSE Undefined)
    ELSE Prop(v, Decimal(i))

\* the error handleApiError throws for the element of errors it reads:
\* a TypeError when the element is null or undefined or its code cannot be
\* made a string, else the message of its code; new Error(undefined) has the
\* message ""
ApiErrorOf(element) ==
    IF element.kind \in {"null", "undefined"}
    THEN Throw("TypeError")
    ELSE LET code == Prop(element, "code")
             value == TemplateString(code)
             key == findKeyByValue(EErrorCodes, value.s)
         IN  IF value.kind = "throw" THEN Throw("TypeError")
             ELSE IF key \in DOMAIN EApiErrors
             THEN Throw(EApiErrors[key])
             ELSE Throw("")

\* handleApiError reading the code of the last error instead of the first
handleApiErrorLast(r) ==
    IF r.data.kind \in {"null", "undefined"}
    THEN Throw("TypeError")
    ELSE LET errors == Prop(r.data, "errors")
         IN  IF Truthy(errors) /\ Truthy(Length(errors))
             THEN ApiErrorOf(Index(errors, Length(errors).n - 1))
             ELSE Return(r)

\* handleApiError(res); reading res.data.errors of a null body is a TypeError
handleApiError(r) ==
    IF r.data.kind \in {"null", "undefined"}
    THEN Throw("TypeError")
    ELSE LET errors == Prop(r.data, "errors")
         IN  IF Truthy(errors) /\ Truthy(Length(errors))
             THEN ApiErrorOf(Index(errors, 0))
             ELSE Return(r)

(***************************************************************************)
(* Inputs: the responses axios may resolve with                            *)
(***************************************************************************)
ErrorObj(code) == Obj(<<F("code", Num(code))>>)

\* the `errors` member of a response body; Undefined stands for its absence
ErrorLists ==
    { Undefined,
      Arr(<<>>),
      Arr(<<ErrorObj(32)>>),
      Arr(<<ErrorObj(88), ErrorObj(32)>>),
      \* a code that EErrorCodes does not hold
      Arr(<<ErrorObj(999)>>),
      Arr(<<ErrorObj(999), ErrorObj(88)>>),
      \* an error without a code
      Arr(<<Obj(<<F("message", Str("m"))>>)>>),
      \* codes sent as strings: numerals whose nearest doubles are 32 and 88
      Arr(<<Obj(<<F("code", Str("32.000000000000000001"))>>)>>),
      Arr(<<Obj(<<F("code", Str("87.999999999999999999"))>>), ErrorObj(32)>>),
      \* a code sent as a string with a line tabulation (U+000B) before it
      Arr(<<Obj(<<F("code", Str("88"))>>)>>) }

\* 201 and 418 are not members of EHttpStatus
Statuses == {200, 201, 404, 418, 429}

\* the bodies sent through the whole pipeline
SampleItems ==
    { <<>>,
      <<Obj(<<F("__typename", Str("TimelineTweet")),
              F("tweet_results", Obj(<<F("result", TweetNode("t4"))>>))>>),
        CursorNode("Bottom", "c1")>>,
      <<Obj(<<F("__typename", Str("TimelineTweet"))>>)>> }

\* the response body: the tree, with the errors member when there is one
Body(errors, tree) ==
    IF errors = Undefined THEN tree
    ELSE Obj(<<F("errors", errors)>> \o tree.fields)

Responses ==
    { [status |-> st, data |-> Body(errs, TreeOf("array", items))] :
        st \in Statuses, errs \in ErrorLists, items \in SampleItems }

(***************************************************************************)
(* The service                                                             *)
(***************************************************************************)
NoValue == [kind |-> "none"]
Resolved(v) == [kind |-> "resolved", value |-> v]
Rejected(e) == [kind |-> "rejected", error |-> e]

Helpers == {"postFollow", "unFollow", "getMessages", "sendMessage", "replyTweet"}

\* the axios configuration built by request(config)
RequestConfig(type) ==
    [url |-> type, httpsAgent |-> httpsAgent]

\* the axios configuration built by postFollow, unFollow, getMessages,
\* sendMessage and replyTweet: url, method, data and headers only
HelperConfig(name) ==
    [url |-> name, httpsAgent |-> "unset"]

\* the constructor
Init ==
    /\ proxyUrl \in {"given", "absent"}
    /\ httpsAgent = getHttpsAgent(proxyUrl)
    /\ op = "none"
    /\ rtype = "none"
    /\ pc = "idle"
    /\ req = NoValue
    /\ res = NoValue
    /\ chain = NoValue
    /\ result = NoValue
    /\ trace = <<>>

\* a method starts: the request is built and handed to axios
Begin(name, type, config) ==
    /\ pc = "idle"
    /\ op' = name
    /\ rtype' = type
    /\ req' = config
    /\ pc' = "awaiting"
    /\ trace' = <<"build", "send">>
    /\ UNCHANGED <<proxyUrl, httpsAgent, res, chain, result>>

\* fetch(resourceType, args), up to the await of this.request(request)
Fetch == \E t \in EResourceType : Begin("fetch", t, RequestConfig(t))

\* post(resourceType, args), up to the await of this.request(request)
Post == \E t \in EResourceType : Begin("post", t, RequestConfig(t))

\* postFollow, unFollow, getMessages, sendMessage, replyTweet, up to the await
Helper == \E h \in Helpers : Begin(h, "none", HelperConfig(h))

\* axios resolves with a response
AxiosResolve ==
    /\ pc = "awaiting"
    /\ \E r \in Responses :
        /\ res' = r
        /\ chain' = Return(r)
    /\ pc' = "responded"
    /\ UNCHANGED <<proxyUrl, httpsAgent, op, rtype, req, result, trace>>

\* axios rejects (no response, or a status its validateStatus refuses)
AxiosReject ==
    /\ pc = "awaiting"
    /\ chain' = Throw("AxiosError")
    /\ pc' = "responded"
    /\ UNCHANGED <<proxyUrl, httpsAgent, op, rtype, req, res, result, trace>>

\* .then((res) => this.handleHttpError(res))
HttpErrorStep ==
    /\ pc = "responded"
    /\ chain.kind = "value"
    /\ chain' = handleHttpError(chain.res)
    /\ pc' = "httpChecked"
    /\ trace' = Append(trace, "http")
    /\ UNCHANGED <<proxyUrl, httpsAgent, op, rtype, req, res, result>>

\* the chain without the API error check: the response is passed on as it is
ApiErrorStepSkipped ==
    /\ pc = "httpChecked"
    /\ chain.kind = "value"
    /\ chain' = chain
    /\ pc' = "apiChecked"
    /\ trace' = Append(trace, "api")
    /\ UNCHANGED <<proxyUrl, httpsAgent, op, rtype, req, res, result>>

\* .then((res) => this.handleApiError(res))
ApiErrorStep ==
    /\ pc = "httpChecked"
    /\ chain.kind = "value"
    /\ chain' = handleApiError(chain.res)
    /\ pc' = "apiChecked"
    /\ trace' = Append(trace, "api")
    /\ UNCHANGED <<proxyUrl, httpsAgent, op, rtype, req, res, result>>

\* a rejection skips the remaining .then callbacks and rejects the method
Propagate ==
    /\ pc \in {"responded", "httpChecked", "apiChecked"}
    /\ chain.kind = "throw"
    /\ result' = Rejected(chain.error)
    /\ pc' = "done"
    /\ UNCHANGED <<proxyUrl, httpsAgent, op, rtype, req, res, chain, trace>>

\* what fetch does with the response of this.request: .then((res) => res.data),
\* extractData, return
FetchOutcome(r, type) ==
    LET out == extractData(r.data, type)
    IN  IF out.kind = "ok" THEN Resolved(out) ELSE Rejected(out.error)

\* the rest of fetch after the await
FetchExtract ==
    /\ pc = "apiChecked"
    /\ op = "fetch"
    /\ chain.kind = "value"
    /\ result' = FetchOutcome(chain.res, rtype)
    /\ pc' = "done"
    /\ trace' = Append(trace, "extract")
    /\ UNCHANGED <<proxyUrl, httpsAgent, op, rtype, req, res, chain>>

\* what post returns once this.request resolved
PostOutcome(r) == Resolved(TRUE)

\* the rest of post after the await
PostReturn ==
    /\ pc = "apiChecked"
    /\ op = "post"
    /\ chain.kind = "value"
    /\ result' = PostOutcome(chain.res)
    /\ pc' = "done"
    /\ UNCHANGED <<proxyUrl, httpsAgent, op, rtype, req, res, chain, trace>>

\* the rest of postFollow, unFollow, getMessages, sendMessage, replyTweet
HelperReturn ==
    /\ pc = "apiChecked"
    /\ op \in Helpers
    /\ chain.kind = "value"
    /\ result' = Resolved(chain.res)
    /\ pc' = "done"
    /\ UNCHANGED <<proxyUrl, httpsAgent, op, rtype, req, res, chain, trace>>

\* the caller has the outcome; the service is ready for the next call
Settle ==
    /\ pc = "done"
    /\ op' = "none"
    /\ rtype' = "none"
    /\ pc' = "idle"
    /\ req' = NoValue
    /\ res' = NoValue
    /\ chain' = NoValue
    /\ result' = NoValue
    /\ trace' = <<>>
    /\ UNCHANGED <<proxyUrl, httpsAgent>>

Next ==
    \/ Fetch
    \/ Post
    \/ Helper
    \/ AxiosResolve
    \/ AxiosReject
    \/ HttpErrorStep
    \/ ApiErrorStep
    \/ Propagate
    \/ FetchExtract
    \/ PostReturn
    \/ HelperReturn
    \/ Settle

Spec == Init /\ [][Next]_vars

(***************************************************************************)
(* extractData as a function of its two arguments                          *)
(***************************************************************************)
\* a call extractData(data, type) about to be made
ExtractInit ==
    /\ proxyUrl = "absent"
    /\ httpsAgent = getHttpsAgent(proxyUrl)
    /\ op = "extractData"
    /\ rtype \in EResourceType
    /\ pc = "call"
    /\ req = NoValue
    /\ res \in {[status |-> 200, data |-> t] : t \in Trees}
    /\ chain = NoValue
    /\ result = NoValue
    /\ trace = <<>>

\* the call is made
ExtractCall ==
    /\ pc = "call"
    /\ result' = extractData(res.data, rtype)
    /\ pc' = "returned"
    /\ UNCHANGED <<proxyUrl, httpsAgent, op, rtype, req, res, chain, trace>>

ExtractNext == ExtractCall

ExtractSpec == ExtractInit /\ [][ExtractNext]_vars

(***************************************************************************)
(* The nodes of a tree by position, for stating what a walk must find      *)
(***************************************************************************)
\* the positions of the tree: the index paths from the root
RECURSIVE PathsOf(_)
PathsOf(d) ==
    {<<>>} \cup UNION {{<<i>> \o p : p \in PathsOf(Kids(d)[i])} : i \in 1..Len(Kids(d))}

\* the value at a position
RECURSIVE At(_, _)
At(d, p) == IF p = <<>> THEN d ELSE At(Kids(d)[Head(p)], Tail(p))

\* p is visited before q: p is an ancestor of q, or p branches off to the left
Before(p, q) ==
    /\ p # q
    /\ \/ Len(p) < Len(q) /\ SubSeq(q, 1, Len(p)) = p
       \/ \E k \in 1..Len(p) :
            /\ k <= Len(q)
            /\ SubSeq(p, 1, k - 1) = SubSeq(q, 1, k - 1)
            /\ p[k] < q[k]

\* the positions of the objects carrying key = value
NodesWith(d, key, value) == {p \in PathsOf(d) : Matches(At(d, p), key, value)}

\* the objects at the positions S, in visiting order
InOrder(d, S) ==
    [i \in 1..Cardinality(S) |->
        At(d, CHOOSE p \in S : Cardinality({q \in S : Before(q, p)}) = i - 1)]

\* the entity list the resource type asks for
ExpectedList(d, type) ==
    LET nodes(name) == InOrder(d, NodesWith(d, "__typename", name))
        results(name, outer) ==
            [i \in 1..Len(nodes(name)) |-> Prop(Prop(nodes(name)[i], outer), "result")]
    IN  IF type \in TweetDetailTypes THEN nodes("Tweet")
        ELSE IF type \in UserDetailTypes THEN nodes("User")
        ELSE IF type \in TimelineTweetTypes THEN results("TimelineTweet", "tweet_results")
        ELSE IF type \in TimelineUserTypes THEN results("TimelineUser", "user_results")
        ELSE <<>>

\* the cursor the tree holds: the value of its first 'Bottom' cursor node
ExpectedCursor(d) ==
    LET S == NodesWith(d, "cursorType", "Bottom")
    IN  IF S = {} THEN Undefined ELSE Prop(InOrder(d, S)[1], "value")

(***************************************************************************)
(* Claims about extractData (checked under ExtractSpec)                    *)
(***************************************************************************)
\* C2: whenever extractData returns, its entity list is the list the resource
\* type selects: the 'Tweet' nodes for TWEET_DETAILS, the 'User' nodes for
\* USER_DETAILS and USER_DETAILS_BY_ID, tweet_results.result of each
\* 'TimelineTweet' node for the four tweet timelines, user_results.result of
\* each 'TimelineUser' node for the four user timelines, all in traversal
\* order, and the empty list for any other resource type.
EntityListMatchesType ==
    (pc = "returned" /\ result.kind = "ok")
        => result.list = ExpectedList(res.data, rtype)

\* a tweet timeline returned two different results, in order
EntityListWitness ==
    /\ pc = "returned"
    /\ rtype = "LIST_TWEETS"
    /\ result.kind = "ok"
    /\ Len(result.list) = 2
    /\ result.list[1] = Undefined
    /\ result.list[2] = TweetNode("t4")

\* C3: whenever extractData returns, for every resource type, the cursor is
\* the value of the first node in traversal order whose cursorType is
\* 'Bottom', and undefined when the tree has none; a 'Top' cursor never
\* supplies it.
CursorIsFirstBottom ==
    (pc = "returned" /\ result.kind = "ok")
        => result.next = ExpectedCursor(res.data)

\* a type that selects no entities, a 'Top' cursor ahead of the 'Bottom' one
CursorWitness ==
    /\ pc = "returned"
    /\ rtype \in OtherTypes
    /\ result.kind = "ok"
    /\ res.data = TreeOf("array", <<CursorNode("Top", "c3"), CursorNode("Bottom", "c2")>>)
    /\ result.next = Str("c2")

\* C4: extractData returns a CursoredData for every tree and every resource
\* type, also when a matched timeline node lacks tweet_results or
\* user_results; it never throws.
ExtractNeverThrows == pc = "returned" => result.kind = "ok"

(***************************************************************************)
(* Claims about the request pipeline (checked under Spec)                  *)
(***************************************************************************)
FetchOrder == <<"build", "send", "http", "api", "extract">>

\* the error a middleware throws on the response, "none" when both return
MiddlewareError(r) ==
    IF handleHttpError(r).kind = "throw" THEN handleHttpError(r).error
    ELSE IF handleApiError(r).kind = "throw" THEN handleApiError(r).error
    ELSE "none"

Extracted == \E i \in 1..Len(trace) : trace[i] = "extract"

\* C1: fetch runs build, send, the HTTP error check, the API error check and
\* extractData in that order; extractData runs only after both checks
\* returned; on a response for which either check throws, extractData is not
\* called, no CursoredData is returned and fetch rejects with that error.
FetchStepsInOrder ==
    op = "fetch" =>
        /\ Len(trace) <= Len(FetchOrder)
        /\ trace = SubSeq(FetchOrder, 1, Len(trace))
        /\ Extracted => (res # NoValue /\ MiddlewareError(res) = "none")
        /\ (res # NoValue /\ MiddlewareError(res) # "none") =>
                /\ ~Extracted
                /\ result.kind # "resolved"
                /\ pc = "done" => result = Rejected(MiddlewareError(res))

\* a fetch whose response passed the HTTP check and failed the API check
FetchRejectedWitness ==
    /\ op = "fetch"
    /\ pc = "done"
    /\ res # NoValue
    /\ res.status = 200
    /\ handleApiError(res).kind = "throw"
    /\ result.kind = "rejected"
    /\ trace = <<"build", "send", "http", "api">>

\* C5: handleHttpError throws for every response whose status is not 200 and
\* returns the response unchanged exactly when the status is 200.
HttpErrorUnless200 ==
    pc = "httpChecked" =>
        /\ res.status # 200 => chain.kind = "throw"
        /\ res.status = 200 <=> chain = Return(res)

\* C6: with a proxyUrl given to the constructor, every request handed to
\* axios carries the proxy agent chosen at construction.
EveryRequestUsesProxy ==
    (proxyUrl = "given" /\ req # NoValue) => req.httpsAgent = "HttpsProxyAgent"

\* C7: post resolves to true when the response passed both error checks and
\* resolves to false when posting failed.
PostReportsOutcome ==
    (op = "post" /\ pc = "done" /\ res # NoValue) =>
        result = Resolved(MiddlewareError(res) = "none")

\* the message EApiErrors gives the code, "" when the code is unknown; a
\* code sent as a string counts as the number it converts to
MessageOfCode(code) ==
    IF code \in {Num(32), Str("32.000000000000000001")}
    THEN "Failed to authenticate"
    ELSE IF code \in {Num(88), Str("87.999999999999999999"), Str("88")}
    THEN "Too many requests"
    ELSE ""

\* C8: handleApiError throws exactly when the body's errors array is not
\* empty and returns the response unchanged otherwise; the error thrown is
\* the one of the first element's code alone, and it throws also when that
\* code is unknown.
ApiErrorFromFirstCode ==
    pc = "apiChecked" =>
        LET errors == Prop(res.data, "errors")
        IN  IF errors.kind = "arr" /\ errors.items # <<>>
            THEN chain = Throw(MessageOfCode(Prop(errors.items[1], "code")))
            ELSE chain = Return(res)

\* two errors, the first of an unknown code, the second of a known one
ApiErrorWitness ==
    /\ pc = "apiChecked"
    /\ Prop(res.data, "errors") = Arr(<<ErrorObj(999), ErrorObj(88)>>)
    /\ chain = Throw("")

====
